---- MODULE Spec2Model ----
(***************************************************************************)
(* A model of the msgpack decoder of decode.go: the byte reader (readb),   *)
(* the container length codec (readContainerLen), the nil-interface        *)
(* resolution (nilIntfDecode, SimpleDecoderContainerResolver) and the      *)
(* recursive value decoder (decodeValue, decodeValueT), driven by          *)
(* DecodeValue.                                                            *)
(*                                                                         *)
(* reflect.Value is modelled as a record [ty, v]: the static type and the  *)
(* contents.  A Go function that mutates the decoder or a destination      *)
(* becomes an operator that takes them and returns their new contents.     *)
(* A panic is the field d.panicking: once it is set every operator         *)
(* returns at once (the unwinding), and DecodeValue turns it into the      *)
(* returned error.                                                         *)
(*                                                                         *)
(* Numbers read from the wire are kept as their big-endian bytes (a value  *)
(* of an integer kind of width w is the w bytes of its two's complement),  *)
(* so that every width conversion of the code is the byte operation it is; *)
(* only container lengths are turned into numbers.                         *)
(***************************************************************************)
EXTENDS Integers, Sequences, FiniteSets, TLC

VARIABLES
    d,      \* the Decoder: its source r, its resolver dam, its scratch x, and the state of the call in progress
    rv,     \* the destination: the value the pointer passed to Decode points to
    ret,    \* the error the last call returned ("nil": none)
    pc,     \* the number of calls made on this decoder
    pre,    \* the destination as it was before the last call
    arg     \* the arguments and the result of the last function applied directly

vars == <<d, rv, ret, pc, pre, arg>>

\* ------------------------------------------------------------------ bounds

\* the longest stream of the general specification
MaxStream == 4
\* the largest byte count asked of readb when it is applied directly
MaxRead == 3
\* the number of Read calls whose outcome the source's schedule dictates
MaxSched == 2

\* ------------------------------------------------------------------ helpers

Min(a, b) == IF a < b THEN a ELSE b

\* n copies of x
Rep(n, x) == [i \in 1..n |-> x]

\* the last w elements of s (s[len-w:])
Last(s, w) == SubSeq(s, Len(s) - w + 1, Len(s))

\* ------------------------------------------------------------------ the byte source

\* what a Read that delivers the first n bytes of r.buf returns
Delivers(r, n, e, rest) ==
    [r |-> [r EXCEPT !.buf = SubSeq(@, n + 1, Len(@)), !.sched = rest],
     got |-> SubSeq(r.buf, 1, n),
     err |-> e]

\* io.Reader.Read(p) with len(p) = k.  The source holds the bytes still to come
\* (buf) and a schedule: the next Read delivers at most sched[1].max bytes and
\* returns an error iff sched[1].err.  With the schedule used up the source is
\* the bytes.Buffer of Unmarshal: all it has up to k, io.EOF when it is empty;
\* or, with stall, a source that keeps returning no byte and no error.
Read(r, k) ==
    IF r.sched = <<>> /\ r.stall
    THEN [r |-> r, got |-> <<>>, err |-> FALSE]
    ELSE IF r.sched = <<>>
    THEN Delivers(r, Min(k, Len(r.buf)), Len(r.buf) = 0 /\ k > 0, <<>>)
    ELSE Delivers(r, Min(Min(k, r.sched[1].max), Len(r.buf)), r.sched[1].err, Tail(r.sched))

\* ------------------------------------------------------------------ panics

\* d.err with the panic not raised: the fault is noted and the caller goes on
errNoPanic(dd, msg) ==
    [dd EXCEPT !.faults = @ + 1,
               !.msg = IF @ = "nil" THEN msg ELSE @]

\* d.err: doPanic panics (decode.go, "all other unexported functions use
\* panics"); msg keeps the first message, faults counts the faults raised
err(dd, msg) ==
    [dd EXCEPT !.panicking = TRUE,
               !.faults = @ + 1,
               !.msg = IF @ = "nil" THEN msg ELSE @]

\* a panic of the Go runtime or of package reflect (Set on a Value that is
\* not settable, SetInt on a bool, an index out of range, a nil dereference)
runtimePanic(dd, msg) ==
    [dd EXCEPT !.panicking = TRUE,
               !.faults = @ + 1,
               !.msg = IF @ = "nil" THEN msg ELSE @]

\* ------------------------------------------------------------------ readb

\* the Decoder after n, err := d.r.Read(bs[at:]) returned rd: d.bs is bs with
\* the bytes delivered written at at; reads logs the call (want: the bytes
\* asked for, missing of them; first: not the retry); late counts the reads
\* issued after a fault was raised
readbRead(dd, bs, at, missing, rd, first) ==
    [dd EXCEPT !.r = rd.r,
               !.bs = SubSeq(bs, 1, at) \o rd.got \o SubSeq(bs, at + Len(rd.got) + 1, Len(bs)),
               !.late = @ + (IF dd.faults > 0 THEN 1 ELSE 0),
               !.reads = Append(@, [want |-> missing, got |-> Len(rd.got), err |-> rd.err, first |-> first])]

\* the last Read logged
lastRead(d1) == d1.reads[Len(d1.reads)]

\* readb after the second Read, which was to deliver the numbytes2 bytes missing
readbSecond(d2, numbytes2) ==
    IF lastRead(d2).err THEN err(d2, "Error")
    ELSE IF lastRead(d2).got # numbytes2 THEN err(d2, "read: Incorrect num bytes read")
    ELSE d2

\* readb after the first Read, which delivered n bytes: the retry into bs[at:]
readbFirst(d1, numbytes, n, at) ==
    IF lastRead(d1).err THEN err(d1, "Error")
    ELSE IF n # numbytes
    THEN readbSecond(readbRead(d1, d1.bs, at, Len(d1.bs) - n, Read(d1.r, Len(d1.bs) - n), FALSE), numbytes - n)
    ELSE d1

\* readb after the first Read, the retry writing at bs[0:]
readbFirstAtStart(d1, numbytes) == readbFirst(d1, numbytes, lastRead(d1).got, 0)

\* readb after the first Read, the retry writing at bs[n:]
readbFirstAtN(d1, numbytes) == readbFirst(d1, numbytes, lastRead(d1).got, lastRead(d1).got)

\* readb with the retry writing at bs[0:] instead of bs[n:]
readbRetryAtStart(dd, numbytes, bs) ==
    IF dd.panicking THEN dd
    ELSE readbFirstAtStart(readbRead(dd, bs, 0, Len(bs), Read(dd.r, Len(bs)), TRUE), numbytes)

\* readb(numbytes, bs): one Read into bs; on a short count without error, one
\* more Read into bs[n:].  d.bs is bs after the call.
readb(dd, numbytes, bs) ==
    IF dd.panicking THEN dd
    ELSE readbFirstAtN(readbRead(dd, bs, 0, Len(bs), Read(dd.r, Len(bs)), TRUE), numbytes)

\* the scratch d.x with its first n bytes those readb left in d.bs
scratch(d1, x, n) == [d1 EXCEPT !.x = d1.bs \o SubSeq(x, n + 1, Len(x))]

\* readb into the scratch view d.x[:n] (d.t1, d.t2, d.t4, d.t8)
readT(dd, n) ==
    IF dd.panicking THEN dd
    ELSE scratch(readb(dd, n, SubSeq(dd.x, 1, n)), dd.x, n)

\* binary.BigEndian.Uint16/32/64 as a number: the first byte is the most significant
RECURSIVE BigEndian(_)
BigEndian(b) ==
    IF b = <<>> THEN 0 ELSE BigEndian(SubSeq(b, 1, Len(b) - 1)) * 256 + b[Len(b)]

\* the bytes of s in reverse order
Reverse(s) == [i \in 1..Len(s) |-> s[Len(s) - i + 1]]

\* the number in the scratch view d.x[:n]: [d, val], val its bytes, most significant first
scratchVal(d1, n) == [d |-> d1, val |-> SubSeq(d1.x, 1, n)]

\* the number in the scratch view d.x[:n] with its bytes taken least significant first
scratchValLittleEndian(d1, n) == [d |-> d1, val |-> Reverse(SubSeq(d1.x, 1, n))]

\* readUint8 .. readUint64: [d, val]
readUint8(dd)  == scratchVal(readT(dd, 1), 1)
\* readUint16 with the two bytes taken least significant first
readUint16LittleEndian(dd) == scratchValLittleEndian(readT(dd, 2), 2)
readUint16(dd) == scratchVal(readT(dd, 2), 2)
readUint32(dd) == scratchVal(readT(dd, 4), 4)
readUint64(dd) == scratchVal(readT(dd, 8), 8)

\* int(u) of a uint16 or uint32 read off the wire
int(u) == BigEndian(u)

\* ------------------------------------------------------------------ bytes as bits

RECURSIVE BitAnd(_, _)
\* a & b
BitAnd(a, b) ==
    IF a = 0 \/ b = 0 THEN 0
    ELSE 2 * BitAnd(a \div 2, b \div 2) + (IF a % 2 = 1 /\ b % 2 = 1 THEN 1 ELSE 0)

RECURSIVE BitXor(_, _)
\* a ^ b
BitXor(a, b) ==
    IF a = 0 THEN b ELSE IF b = 0 THEN a
    ELSE 2 * BitXor(a \div 2, b \div 2) + (IF a % 2 # b % 2 THEN 1 ELSE 0)

\* ------------------------------------------------------------------ the container length codec

ContainerRawBytes == "ContainerRawBytes"
ContainerList     == "ContainerList"
ContainerMap      == "ContainerMap"
ContainerTypes    == {ContainerRawBytes, ContainerList, ContainerMap}

\* getContainerByteDesc(ct): the inline mask b0, the 16-bit tag b1, the 32-bit tag b2
getContainerByteDesc(ct) ==
    CASE ct = ContainerRawBytes -> [b0 |-> 160, b1 |-> 218, b2 |-> 219]   \* 0xa0, 0xda, 0xdb
      [] ct = ContainerList     -> [b0 |-> 144, b1 |-> 220, b2 |-> 221]   \* 0x90, 0xdc, 0xdd
      [] ct = ContainerMap      -> [b0 |-> 128, b1 |-> 222, b2 |-> 223]   \* 0x80, 0xde, 0xdf

\* l = int(d.readUintN()) of readContainerLen: [d, l]; lens lists the
\* descriptor bytes a length was derived from
containerLenRead(u, bd) ==
    IF u.d.panicking THEN [d |-> u.d, l |-> 0]
    ELSE [d |-> [u.d EXCEPT !.lens = Append(@, bd)], l |-> int(u.val)]

\* the switch of readContainerLen on the descriptor byte bd
containerLenSwitch(d1, bd, c) ==
    IF d1.panicking THEN [d |-> d1, l |-> 0]
    ELSE IF bd = c.b1 THEN containerLenRead(readUint16(d1), bd)
    ELSE IF bd = c.b2 THEN containerLenRead(readUint32(d1), bd)
    ELSE IF BitAnd(c.b0, bd) = c.b0
    THEN [d |-> [d1 EXCEPT !.lens = Append(@, bd)], l |-> BitXor(c.b0, bd)]
    ELSE [d |-> err(d1, "readContainerLen: Unrecognized descriptor byte"), l |-> 0]

\* readContainerLen once bd = d.readUint8() is in the scratch
containerLenDesc(d1, ct) ==
    IF d1.panicking THEN [d |-> d1, l |-> 0]
    ELSE containerLenSwitch(d1, d1.x[1], getContainerByteDesc(ct))

\* readContainerLen(bd, readDesc, ct): [d, l]
readContainerLen(dd, bd0, readDesc, ct) ==
    IF dd.panicking THEN [d |-> dd, l |-> 0]
    ELSE IF readDesc THEN containerLenDesc(readT(dd, 1), ct)
    ELSE containerLenSwitch(dd, bd0, getContainerByteDesc(ct))

\* ------------------------------------------------------------------ types and values

\* reflect.Type: [k |-> kind], with e the element type of a slice, array, map
\* or pointer, n the length of an array, key the key type of a map, f the
\* fields of a struct (name: the encoded name as bytes; ty: the field type)
intfTyp      == [k |-> "interface"]
stringTyp    == [k |-> "string"]
boolTyp      == [k |-> "bool"]
uint8Typ     == [k |-> "uint8"]
int64Typ     == [k |-> "int64"]
timeTyp      == [k |-> "struct", t |-> "time.Time"]
SliceOf(e)   == [k |-> "slice", e |-> e]
ArrayOf(n, e) == [k |-> "array", e |-> e, n |-> n]
MapOf(kt, e) == [k |-> "map", e |-> e, key |-> kt]
PtrTo(e)     == [k |-> "ptr", e |-> e]
byteSliceTyp == SliceOf(uint8Typ)
intfSliceTyp == SliceOf(intfTyp)
mapIntfIntfTyp == MapOf(intfTyp, intfTyp)

IntKinds   == {"int", "int8", "int16", "int32", "int64"}
UintKinds  == {"uint", "uint8", "uint16", "uint32", "uint64"}
FloatKinds == {"float32", "float64"}

\* the size in bytes of a value of an integer kind (int and uint are 64 bits wide)
Width(k) ==
    CASE k \in {"int8", "uint8"}   -> 1
      [] k \in {"int16", "uint16"} -> 2
      [] k \in {"int32", "uint32"} -> 4
      [] OTHER                     -> 8

\* reflect.Value: the type and the contents.  Contents: a bool is a BOOLEAN;
\* an integer its Width bytes, most significant first; a float the bits it was
\* made from (w: their width, rnd: rounded to float32); a string its bytes; a
\* slice [arr, len, nl]: the backing array (cap elements), the visible length,
\* nil or not; an array its elements; a map [m, nl]: the set of its [key, val]
\* entries; a pointer [nl, p]; an interface the Value it holds, or Invalid; a
\* struct its fields in order.
V(ty, v) == [ty |-> ty, v |-> v]

\* reflect.Value{}: the zero Value, for which IsValid is false
Invalid == [ty |-> [k |-> "invalid"], v |-> 0]

Kind(x)    == x.ty.k
IsValid(x) == x.ty.k # "invalid"

RECURSIVE Zero(_)
\* reflect.Zero(ty)
Zero(ty) ==
    CASE ty.k = "bool"       -> V(ty, FALSE)
      [] ty.k \in IntKinds \cup UintKinds -> V(ty, Rep(Width(ty.k), 0))
      [] ty.k = "float32"    -> V(ty, [bits |-> Rep(4, 0), rnd |-> FALSE, w |-> 32])
      [] ty.k = "float64"    -> V(ty, [bits |-> Rep(8, 0), rnd |-> FALSE, w |-> 64])
      [] ty.k = "string"     -> V(ty, <<>>)
      [] ty.k = "slice"      -> V(ty, [arr |-> <<>>, len |-> 0, nl |-> TRUE])
      [] ty.k = "array"      -> V(ty, Rep(ty.n, Zero(ty.e)))
      [] ty.k = "map"        -> V(ty, [m |-> {}, nl |-> TRUE])
      [] ty.k = "ptr"        -> V(ty, [nl |-> TRUE, p |-> 0])
      [] ty.k = "interface"  -> V(ty, Invalid)
      [] ty = timeTyp        -> V(ty, <<Rep(8, 0), Rep(8, 0)>>)
      [] OTHER               -> V(ty, [i \in 1..Len(ty.f) |-> Zero(ty.f[i].ty)])

\* rv.IsNil() of an interface, pointer, slice or map
IsNil(x) ==
    CASE Kind(x) = "interface" -> ~IsValid(x.v)
      [] OTHER                 -> x.v.nl

\* rv.Len() of a slice or an array
LenOf(x) == IF Kind(x) = "slice" THEN x.v.len ELSE Len(x.v)

\* rv.Cap() of a slice
CapOf(x) == Len(x.v.arr)

\* rv.Index(j), j counted from 0
Index(x, j) == IF Kind(x) = "slice" THEN x.v.arr[j + 1] ELSE x.v[j + 1]

\* x with the contents of rv.Index(j) replaced by e
WithIndex(x, j, e) ==
    IF Kind(x) = "slice" THEN [x EXCEPT !.v.arr[j + 1] = e] ELSE [x EXCEPT !.v[j + 1] = e]

\* reflect.MakeSlice(ty, n, n)
MakeSlice(ty, n) == V(ty, [arr |-> Rep(n, Zero(ty.e)), len |-> n, nl |-> FALSE])

\* reflect.MakeMap(ty)
MakeMap(ty) == V(ty, [m |-> {}, nl |-> FALSE])

\* the bytes of a []byte (rv.Bytes()) and the []byte of some bytes
Bytes(x) == [i \in 1..x.v.len |-> x.v.arr[i].v[1]]
ByteSlice(bs) == V(byteSliceTyp, [arr |-> [i \in 1..Len(bs) |-> V(uint8Typ, <<bs[i]>>)], len |-> Len(bs), nl |-> FALSE])

\* reflect.ValueOf(&x): a non-nil pointer to x
AddrOf(x) == V(PtrTo(x.ty), [nl |-> FALSE, p |-> x])

\* rv.Elem() of a pointer or an interface
Elem(x) == IF Kind(x) = "interface" THEN x.v ELSE IF x.v.nl THEN Invalid ELSE x.v.p

\* what a slot of type ty holds after Set(x): an interface slot holds the
\* concrete value, whether x is itself of interface type or not
Assign(ty, x) ==
    IF ty.k = "interface" THEN V(ty, IF Kind(x) = "interface" THEN x.v ELSE x) ELSE x

\* int64(intN(u)) and uint64(u): u widened to 8 bytes with and without its sign
SignExtend(u) == Rep(8 - Len(u), IF u[1] >= 128 THEN 255 ELSE 0) \o u
ZeroExtend(u) == Rep(8 - Len(u), 0) \o u

\* the mutation every reflect setter starts with: it panics unless the Value
\* is addressable (obtained through a pointer, a slice element, or a field or
\* element of something addressable)
Set(dd, canSet) ==
    IF dd.panicking \/ canSet THEN dd
    ELSE runtimePanic(dd, "reflect: Set using unaddressable value")

\* rv.MapIndex(key): the entry's value, or Invalid; never settable
MapIndex(x, key) ==
    IF \E en \in x.v.m : en.key = key
    THEN (CHOOSE en \in x.v.m : en.key = key).val
    ELSE Invalid

\* rv.SetMapIndex(key, val)
SetMapIndex(x, key, val) ==
    [x EXCEPT !.v.m = {en \in @ : en.key # key} \cup {[key |-> key, val |-> val]}]

\* the map key a Value stands for: an interface Value stands for what it holds
KeyOf(x) == IF Kind(x) = "interface" THEN x.v ELSE x

\* whether Go can hash the key: slices and maps cannot be map keys
Hashable(key) == Kind(key) \notin {"slice", "map"}

\* getStructFieldInfos(rvtype).getForEncName(name): the index of the field of
\* that encoded name, 0 (nil) when there is none
getForEncName(rvtype, name) ==
    IF \E i \in 1..Len(rvtype.f) : rvtype.f[i].name = name
    THEN CHOOSE i \in 1..Len(rvtype.f) : rvtype.f[i].name = name
    ELSE 0

\* ------------------------------------------------------------------ the container resolver

\* SimpleDecoderContainerResolver.DecoderContainer(parentcontainer, parentkey,
\* length, ct); parent is parentcontainer.Kind().  An unknown ct leaves rvn
\* the zero Value.
DecoderContainer(dam, parent, length, ct) ==
    CASE ct = ContainerMap ->
            IF dam.MapType.k # "nil" THEN MakeMap(dam.MapType) ELSE MakeMap(mapIntfIntfTyp)
      [] ct = ContainerList ->
            IF dam.SliceType.k # "nil" THEN MakeSlice(dam.SliceType, length)
            ELSE MakeSlice(intfSliceTyp, length)
      [] ct = ContainerRawBytes ->
            IF \/ (parent = "invalid" /\ dam.BytesStringLiteral)
               \/ (parent = "slice" /\ dam.BytesStringSliceElement)
               \/ (parent = "map" /\ dam.BytesStringMapValue)
            THEN AddrOf(V(stringTyp, <<>>))
            ELSE MakeSlice(byteSliceTyp, length)
      [] OTHER -> Invalid


\* ------------------------------------------------------------------ nilIntfDecode

\* what nilIntfDecode returns, with the Decoder and rv0's storage: slot is
\* what rv0's storage holds afterwards; rv the Value returned; elem: rv is
\* slot's Elem()
nilIntfOut(d2, slot, r, bd, ct, cl, handled, elem) ==
    [d |-> d2, slot |-> slot, rv |-> r, bd |-> bd, ct |-> ct,
     containerLen |-> cl, handled |-> handled, elem |-> elem]

\* rv.Set(reflect.ValueOf(x)) of nilIntfDecode, d3 the Decoder after the
\* settability check of Set
nilIntfSet(d3, rv0, x, bd, cl) ==
    IF d3.panicking THEN nilIntfOut(d3, rv0, rv0, bd, "", cl, TRUE, FALSE)
    ELSE nilIntfOut(d3, Assign(rv0.ty, x), Assign(rv0.ty, x), bd, "", cl, TRUE, FALSE)

\* a case of nilIntfDecode that sets rv to a number of type ty read off the wire
nilIntfNumber(u, ty, rv0, canSet, bd, cl) ==
    nilIntfSet(Set(u.d, canSet), rv0, V(ty, u.val), bd, cl)

\* a case of nilIntfDecode that sets rv to a float of w bits read off the wire
nilIntfFloat(u, ty, w, rv0, canSet, bd, cl) ==
    nilIntfSet(Set(u.d, canSet), rv0, V(ty, [bits |-> u.val, rnd |-> FALSE, w |-> w]), bd, cl)

\* rv.Set(rvn) of nilIntfDecode, c the resolver's container; a string comes
\* as a pointer and rv becomes rv.Elem()
nilIntfContainerSet(d3, c, rv0, bd, ct, l) ==
    IF d3.panicking THEN nilIntfOut(d3, rv0, rv0, bd, ct, l, FALSE, FALSE)
    ELSE IF ct = ContainerRawBytes
    THEN nilIntfOut(d3, Assign(rv0.ty, c), c, bd, ct, l, FALSE, TRUE)
    ELSE nilIntfOut(d3, Assign(rv0.ty, c), Assign(rv0.ty, c), bd, ct, l, FALSE, FALSE)

\* a container case of nilIntfDecode once its length L is known
nilIntfContainer(L, ct, setContainers, rv0, canSet, bd) ==
    IF L.d.panicking \/ ~setContainers THEN nilIntfOut(L.d, rv0, rv0, bd, ct, L.l, FALSE, FALSE)
    ELSE nilIntfContainerSet(Set([L.d EXCEPT !.resolved = @ + 1], canSet),
                             DecoderContainer(L.d.dam, "invalid", L.l, ct), rv0, bd, ct, L.l)

\* if containerLen < 0 { containerLen = d.readContainerLen(bd, false, ct) }
containerLenOr(dd, bd, containerLen0, ct) ==
    IF containerLen0 < 0 THEN readContainerLen(dd, bd, FALSE, ct)
    ELSE [d |-> dd, l |-> containerLen0]

\* the ContainerType the descriptor byte bd announces, "" if none
containerTypeOf(bd) ==
    IF bd = 218 \/ bd = 219 \/ (bd >= 160 /\ bd <= 191) THEN ContainerRawBytes
    ELSE IF bd = 220 \/ bd = 221 \/ (bd >= 144 /\ bd <= 159) THEN ContainerList
    ELSE IF bd = 222 \/ bd = 223 \/ (bd >= 128 /\ bd <= 143) THEN ContainerMap
    ELSE ""

\* the switch of nilIntfDecode on the descriptor byte bd
nilIntfSwitch(d1, bd, containerLen0, setContainers, rv0, canSet) ==
    IF d1.panicking THEN nilIntfOut(d1, rv0, rv0, bd, "", containerLen0, TRUE, FALSE)
    ELSE CASE bd = 192 -> nilIntfOut(d1, rv0, rv0, bd, "", containerLen0, TRUE, FALSE)                      \* 0xc0
      [] bd = 194 -> nilIntfSet(Set(d1, canSet), rv0, V(boolTyp, FALSE), bd, containerLen0)                 \* 0xc2
      [] bd = 195 -> nilIntfSet(Set(d1, canSet), rv0, V(boolTyp, TRUE), bd, containerLen0)                  \* 0xc3
      [] bd = 202 -> nilIntfFloat(readUint32(d1), [k |-> "float32"], 32, rv0, canSet, bd, containerLen0)    \* 0xca
      [] bd = 203 -> nilIntfFloat(readUint64(d1), [k |-> "float64"], 64, rv0, canSet, bd, containerLen0)    \* 0xcb
      [] bd = 204 -> nilIntfNumber(readUint8(d1),  [k |-> "uint8"],  rv0, canSet, bd, containerLen0)        \* 0xcc
      [] bd = 205 -> nilIntfNumber(readUint16(d1), [k |-> "uint16"], rv0, canSet, bd, containerLen0)        \* 0xcd
      [] bd = 206 -> nilIntfNumber(readUint32(d1), [k |-> "uint32"], rv0, canSet, bd, containerLen0)        \* 0xce
      [] bd = 207 -> nilIntfNumber(readUint64(d1), [k |-> "uint64"], rv0, canSet, bd, containerLen0)        \* 0xcf
      [] bd = 208 -> nilIntfNumber(readUint8(d1),  [k |-> "int8"],   rv0, canSet, bd, containerLen0)        \* 0xd0
      [] bd = 209 -> nilIntfNumber(readUint16(d1), [k |-> "int16"],  rv0, canSet, bd, containerLen0)        \* 0xd1
      [] bd = 210 -> nilIntfNumber(readUint32(d1), [k |-> "int32"],  rv0, canSet, bd, containerLen0)        \* 0xd2
      [] bd = 211 -> nilIntfNumber(readUint64(d1), [k |-> "int64"],  rv0, canSet, bd, containerLen0)        \* 0xd3
      [] containerTypeOf(bd) # "" ->
            nilIntfContainer(containerLenOr(d1, bd, containerLen0, containerTypeOf(bd)),
                             containerTypeOf(bd), setContainers, rv0, canSet, bd)
      [] (bd >= 224 /\ bd <= 255) \/ (bd >= 0 /\ bd <= 127) ->                                              \* FIXNUM
            nilIntfSet(Set(d1, canSet), rv0, V([k |-> "int8"], <<bd>>), bd, containerLen0)
      [] OTHER -> nilIntfOut(err(d1, "Nil-Deciphered DecodeValue: Unrecognized descriptor byte"),
                             rv0, rv0, bd, "", containerLen0, FALSE, FALSE)

\* nilIntfDecode once bd = d.readUint8() is in the scratch
nilIntfDesc(d1, containerLen0, setContainers, rv0, canSet) ==
    IF d1.panicking THEN nilIntfOut(d1, rv0, rv0, 0, "", containerLen0, TRUE, FALSE)
    ELSE nilIntfSwitch(d1, d1.x[1], containerLen0, setContainers, rv0, canSet)

\* nilIntfDecode(bd0, containerLen0, readDesc, setContainers, rv0), rv0 a nil
\* interface that is settable iff canSet
nilIntfDecode(dd, bd0, containerLen0, readDesc, setContainers, rv0, canSet) ==
    IF dd.panicking THEN nilIntfOut(dd, rv0, rv0, bd0, "", containerLen0, TRUE, FALSE)
    ELSE IF readDesc THEN nilIntfDesc(readT(dd, 1), containerLen0, setContainers, rv0, canSet)
    ELSE nilIntfSwitch(dd, bd0, containerLen0, setContainers, rv0, canSet)

\* ------------------------------------------------------------------ decodeValue

RECURSIVE decodeValue(_, _, _, _, _, _)
RECURSIVE decodeValueT(_, _, _, _, _, _, _, _, _)
RECURSIVE decodeBody(_, _, _, _, _)
RECURSIVE decodeElems(_, _, _, _, _)
RECURSIVE decodeFields(_, _, _, _, _)
RECURSIVE decodePairs(_, _, _, _)

\* one element, field or pair of a container has been decoded
Decoded(dd) == IF dd.panicking THEN dd ELSE [dd EXCEPT !.pending = @ - 1]

\* a container of l elements, fields or pairs is about to be decoded
Declared(dd, l) == IF dd.panicking THEN dd ELSE [dd EXCEPT !.pending = @ + l]

\* a Value x after a reflect setter made it new, d2 the Decoder after the
\* settability check of the setter
SetTo(d2, x, new) == IF d2.panicking THEN [d |-> d2, val |-> x] ELSE [d |-> d2, val |-> new]

\* rve.Set(rvn) of decodeValueT, d2 the Decoder after the checks of Set
decodeValueTSet(d2, r, rv1, rve) ==
    IF d2.panicking THEN [d |-> d2, slot |-> r.slot, rvn |-> r.slot]
    ELSE [d |-> d2, slot |-> Assign(rve.ty, rv1), rvn |-> rv1]

\* decodeValueT once rvn is dereferenced to rv1
decodeValueTReal(r, rv1, rve, canSet, setToRealValue) ==
    IF ~setToRealValue THEN [d |-> r.d, slot |-> r.slot, rvn |-> rv1]
    ELSE decodeValueTSet(IF ~Set(r.d, canSet).panicking /\ ~IsValid(rv1)
                         THEN runtimePanic(r.d, "reflect: Set of the zero Value")
                         ELSE Set(r.d, canSet),
                         r, rv1, rve)

\* decodeValueT after rvn, wasNilIntf := d.decodeValue(...) returned r
decodeValueTDone(r, rve, canSet, checkWasNilIntf, dereferencePtr, setToRealValue) ==
    IF r.d.panicking THEN [d |-> r.d, slot |-> r.slot, rvn |-> r.slot]
    ELSE IF ((checkWasNilIntf /\ r.wasNilIntf) \/ ~checkWasNilIntf) /\ IsValid(r.rv)
    THEN decodeValueTReal(r, IF dereferencePtr /\ Kind(r.rv) = "ptr" THEN Elem(r.rv) ELSE r.rv,
                          rve, canSet, setToRealValue)
    ELSE [d |-> r.d, slot |-> r.slot, rvn |-> r.slot]

\* decodeValueT(bd, containerLen, readDesc, rve, checkWasNilIntf,
\* dereferencePtr, setToRealValue), rve settable iff canSet: [d, slot, rvn],
\* slot what rve's storage holds afterwards
decodeValueT(dd, bd, containerLen, readDesc, rve, canSet, checkWasNilIntf, dereferencePtr, setToRealValue) ==
    decodeValueTDone(decodeValue(dd, bd, containerLen, readDesc, rve, canSet),
                     rve, canSet, checkWasNilIntf, dereferencePtr, setToRealValue)

\* the interface x after what it holds was decoded
decodedIntf(r, x) == [d |-> r.d, val |-> V(x.ty, r.slot)]

\* the pointer x after its pointee was decoded
decodedPtr(r, x) == [d |-> r.d, val |-> V(x.ty, [nl |-> FALSE, p |-> r.slot])]

\* case reflect.Ptr, reflect.Interface of decodeValue
decodePtr(dd, bd, containerLen, x, canSet) ==
    IF Kind(x) = "interface"
    THEN IF IsNil(x)
         THEN [d |-> runtimePanic(dd, "reflect: Elem of invalid type"), val |-> x]
         ELSE decodedIntf(decodeValue(dd, bd, containerLen, FALSE, Elem(x), FALSE), x)
    ELSE IF IsNil(x) /\ Set(dd, canSet).panicking THEN [d |-> Set(dd, canSet), val |-> x]
    ELSE decodedPtr(decodeValue(dd, bd, containerLen, FALSE,
                                IF IsNil(x) THEN Zero(x.ty.e) ELSE Elem(x), TRUE), x)

\* a setter of reflect for the kinds ks: it panics on a Value that is not
\* settable or of another kind
Put(d3, x, ks, c) ==
    IF d3.panicking THEN [d |-> d3, val |-> x]
    ELSE IF Kind(x) \notin ks
    THEN [d |-> runtimePanic(d3, "reflect: call of a setter on a Value of another kind"), val |-> x]
    ELSE [d |-> d3, val |-> V(x.ty, c)]

SetBool(d2, x, canSet, b)   == Put(Set(d2, canSet), x, {"bool"}, b)
SetInt(d2, x, canSet, x64)  == Put(Set(d2, canSet), x, IntKinds, Last(x64, Width(Kind(x))))
SetUint(d2, x, canSet, x64) == Put(Set(d2, canSet), x, UintKinds, Last(x64, Width(Kind(x))))
SetFloat(d2, x, canSet, u, w) ==
    Put(Set(d2, canSet), x, FloatKinds, [bits |-> u, rnd |-> (w = 64 /\ Kind(x) = "float32"), w |-> w])

\* rv.SetInt(int64(intN(u))), rv.SetUint(uint64(u)) and rv.SetFloat of the
\* w bits u, u read off the wire
SetIntRead(u, x, canSet)      == SetInt(u.d, x, canSet, SignExtend(u.val))
SetUintRead(u, x, canSet)     == SetUint(u.d, x, canSet, ZeroExtend(u.val))
SetFloatRead(u, x, canSet, w) == SetFloat(u.d, x, canSet, u.val, w)

\* case reflect.Bool, reflect.Int .. reflect.Float64 of decodeValue
decodeScalar(dd, bd, x, canSet) ==
    CASE bd = 194 -> SetBool(dd, x, canSet, FALSE)                       \* 0xc2
      [] bd = 195 -> SetBool(dd, x, canSet, TRUE)                        \* 0xc3
      [] bd = 202 -> SetFloatRead(readUint32(dd), x, canSet, 32)         \* 0xca
      [] bd = 203 -> SetFloatRead(readUint64(dd), x, canSet, 64)         \* 0xcb
      [] bd = 204 -> SetUintRead(readUint8(dd), x, canSet)               \* 0xcc
      [] bd = 205 -> SetUintRead(readUint16(dd), x, canSet)              \* 0xcd
      [] bd = 206 -> SetUintRead(readUint32(dd), x, canSet)              \* 0xce
      [] bd = 207 -> SetUintRead(readUint64(dd), x, canSet)              \* 0xcf
      [] bd = 208 -> SetIntRead(readUint8(dd), x, canSet)                \* 0xd0
      [] bd = 209 -> SetIntRead(readUint16(dd), x, canSet)               \* 0xd1
      [] bd = 210 -> SetIntRead(readUint32(dd), x, canSet)               \* 0xd2
      [] bd = 211 -> SetIntRead(readUint64(dd), x, canSet)               \* 0xd3
      [] OTHER ->
            IF Kind(x) \in IntKinds /\ ((bd >= 0 /\ bd <= 127) \/ (bd >= 224 /\ bd <= 255))
            THEN SetInt(dd, x, canSet, SignExtend(<<bd>>))
            ELSE IF Kind(x) \in UintKinds /\ bd >= 0 /\ bd <= 127
            THEN SetUint(dd, x, canSet, ZeroExtend(<<bd>>))
            ELSE [d |-> err(dd, "DefNotHandled DecodeValue: Unrecognized descriptor byte"), val |-> x]

\* the bytes rv holds when it is a []byte
rawHeld(x) == IF x.ty = byteSliceTyp THEN Bytes(x) ELSE <<>>

\* bs of the raw bytes: rv's bytes cut to containerLen, or containerLen new
\* bytes when rv is a string or too short
rawBuf(x, containerLen) ==
    IF Len(rawHeld(x)) < containerLen THEN Rep(containerLen, 0)
    ELSE SubSeq(rawHeld(x), 1, containerLen)

\* rv after rv.Set(reflect.ValueOf(bs)) when it is a []byte too short
rawDest(x, containerLen) ==
    IF x.ty = byteSliceTyp /\ Len(rawHeld(x)) < containerLen
    THEN ByteSlice(Rep(containerLen, 0)) ELSE x

\* bs shares its array with rv: the bytes read are rv's first bytes
rawShared(x1, bs, containerLen) ==
    IF x1.ty = byteSliceTyp
    THEN [x1 EXCEPT !.v.arr = [i \in 1..Len(x1.v.arr) |->
                                 IF i <= containerLen THEN V(uint8Typ, <<bs[i]>>) ELSE x1.v.arr[i]]]
    ELSE x1

\* the raw bytes after d.readb(containerLen, bs) left the Decoder d3
decodeRawRead(d3, x1, containerLen, canSet) ==
    IF d3.panicking \/ Kind(x1) # "string" THEN [d |-> d3, val |-> rawShared(x1, d3.bs, containerLen)]
    ELSE SetTo(Set(d3, canSet), x1, V(x1.ty, d3.bs))

\* the raw bytes of case reflect.Slice, reflect.Array, reflect.String:
\* containerLen bytes into a string or a []byte
decodeRaw(dd, containerLen, x, canSet) ==
    IF x.ty = byteSliceTyp /\ Len(rawHeld(x)) < containerLen /\ ~canSet
    THEN [d |-> Set(dd, canSet), val |-> x]
    ELSE decodeRawRead(readb(dd, containerLen, rawBuf(x, containerLen)),
                       rawDest(x, containerLen), containerLen, canSet)

\* rv.Set(rvn) of a nil interface{} element or map value, t2 what decoding
\* into the resolver's container returned
resolvedSet(d3, t2, n, ty) ==
    IF d3.panicking THEN [d |-> d3, slot |-> n.slot]
    ELSE [d |-> d3, slot |-> Assign(ty, t2.rvn)]

\* the resolver's container decoded into
resolvedDecoded(t2, n, ty, canSet) == resolvedSet(Set(t2.d, canSet), t2, n, ty)

\* [d, slot] of what decodeValueT returned
slotOf(t) == [d |-> t.d, slot |-> t.slot]

\* [d, slot] of what decodeValueT returned, the slot the Value returned
rvnOf(t) == [d |-> t.d, slot |-> t.rvn]

\* a nil interface{} element or map value after nilIntfDecode returned n:
\* the resolver asked for a container with the parent it is in, the
\* container decoded into and set
resolved(n, c, ty, canSet, setToRealValue) ==
    IF n.d.panicking \/ n.handled THEN [d |-> n.d, slot |-> n.slot]
    ELSE IF IsValid(c)
    THEN resolvedDecoded(decodeValueT([n.d EXCEPT !.resolved = @ + 1], n.bd, n.containerLen, FALSE,
                                      c, FALSE, FALSE, TRUE, FALSE),
                         n, ty, canSet)
    ELSE slotOf(decodeValueT([n.d EXCEPT !.resolved = @ + 1], n.bd, n.containerLen, FALSE,
                             n.slot, canSet, TRUE, TRUE, setToRealValue))

\* the resolver's answer for a nil interface{} within parent
resolve(n, parent, ty, canSet, setToRealValue) ==
    resolved(n, DecoderContainer(n.d.dam, Kind(parent), n.containerLen, n.ct), ty, canSet, setToRealValue)

\* rvj of the element loop when it is a nil interface{}: nilIntfDecode, then
\* the resolver's container decoded and set
decodeElemNilIntf(dd, parent, rvj, canSet) ==
    resolve(nilIntfDecode(dd, 0, -1, TRUE, FALSE, rvj, canSet), parent, rvj.ty, canSet, TRUE)

\* one element of the element loop
decodeElem(dd, x, rvj, canSetElem) ==
    IF x.ty.e = intfTyp /\ IsNil(rvj) THEN decodeElemNilIntf(dd, x, rvj, canSetElem)
    ELSE slotOf(decodeValueT(dd, 0, -1, TRUE, rvj, canSetElem, TRUE, TRUE, TRUE))

\* the list after element j was decoded
decodedElem(e, x, j) == [d |-> Decoded(e.d), val |-> WithIndex(x, j, e.slot)]

\* the element loop from element j on, p the list after the elements before it
decodeElemsFrom(p, j, containerLen, canSetElem) == decodeElems(p.d, p.val, j, containerLen, canSetElem)

\* the element loop of case reflect.Slice, reflect.Array: the iterations
\* j .. containerLen-1 in order, the first half and then the rest (the
\* halving keeps the evaluation shallow); a panic ends the loop
decodeElems(dd, x, j, containerLen, canSetElem) ==
    IF dd.panicking \/ j >= containerLen THEN [d |-> dd, val |-> x]
    ELSE IF j + 1 < containerLen
    THEN decodeElemsFrom(decodeElems(dd, x, j, (j + containerLen) \div 2, canSetElem),
                         (j + containerLen) \div 2, containerLen, canSetElem)
    ELSE IF j >= LenOf(x) THEN [d |-> runtimePanic(dd, "reflect: index out of range"), val |-> x]
    ELSE decodedElem(decodeElem(dd, x, Index(x, j), canSetElem), x, j)

\* an array before the element loop: its length checked, its tail zeroed
listArray(dd, containerLen, x, canSet) ==
    IF LenOf(x) < containerLen
    THEN [d |-> err(dd, "Array len must be >= container Len"), val |-> x]
    ELSE IF LenOf(x) > containerLen
    THEN SetTo(Set(dd, canSet), x,
               V(x.ty, [i \in 1..LenOf(x) |-> IF i > containerLen THEN Zero(x.ty.e) ELSE x.v[i]]))
    ELSE [d |-> dd, val |-> x]

\* a slice longer than its capacity allows: a new one with the old elements copied
grown(x, containerLen) ==
    [MakeSlice(x.ty, containerLen) EXCEPT
        !.v.arr = [i \in 1..containerLen |-> IF i <= LenOf(x) THEN x.v.arr[i] ELSE Zero(x.ty.e)]]

\* a slice before the element loop: made when nil, grown or lengthened when
\* shorter than the container
listSlice(dd, containerLen, x, canSet) ==
    IF IsNil(x) \/ containerLen > LenOf(x)
    THEN SetTo(Set(dd, canSet), x,
               IF IsNil(x) THEN MakeSlice(x.ty, containerLen)
               ELSE IF containerLen > CapOf(x) THEN grown(x, containerLen)
               ELSE [x EXCEPT !.v.len = containerLen])
    ELSE [d |-> dd, val |-> x]

\* the element loop entered with the list p prepared
listElems(p, containerLen, canSetElem) ==
    IF p.d.panicking THEN p
    ELSE decodeElems(Declared(p.d, containerLen), p.val, 0, containerLen, canSetElem)

\* the list of case reflect.Slice, reflect.Array: the array checked and its
\* tail zeroed, the slice made or grown, then the element loop
decodeList(dd, containerLen, x, canSet) ==
    listElems(IF Kind(x) = "array" THEN listArray(dd, containerLen, x, canSet)
              ELSE listSlice(dd, containerLen, x, canSet),
              containerLen, IF Kind(x) = "slice" THEN TRUE ELSE canSet)

\* rawbytes of decodeValue: rv is a string or a []byte
isRawBytes(x) == Kind(x) = "string" \/ x.ty = byteSliceTyp

\* case reflect.Slice, reflect.Array, reflect.String once the length L is known
seqBody(L, x, canSet) ==
    IF L.d.panicking \/ L.l = 0 THEN [d |-> L.d, val |-> x]
    ELSE IF isRawBytes(x) THEN decodeRaw(L.d, L.l, x, canSet)
    ELSE decodeList(L.d, L.l, x, canSet)

\* case reflect.Slice, reflect.Array, reflect.String of decodeValue.  (The
\* d.err "Strings must be handled as raw bytes" that follows the raw bytes
\* is never reached: a string is raw bytes, and that branch breaks.)
decodeSeq(dd, bd, containerLen0, x, canSet) ==
    seqBody(containerLenOr(dd, bd, containerLen0,
                           IF isRawBytes(x) THEN ContainerRawBytes ELSE ContainerList),
            x, canSet)

\* the struct after field i was decoded
decodedField(t, i, x) == [d |-> Decoded(t.d), val |-> [x EXCEPT !.v[i] = t.slot]]

\* the struct after a value was decoded, kept in field i or dropped
decodedFieldSkipUnknown(t, i, x) ==
    [d |-> Decoded(t.d), val |-> IF i = 0 THEN x ELSE [x EXCEPT !.v[i] = t.slot]]

\* one pair of the field loop with the key looked up: i its field, 0 when it names none
fieldValue(d2, i, x, canSet) ==
    IF d2.panicking THEN [d |-> d2, val |-> x]
    ELSE IF i = 0 THEN [d |-> runtimePanic(d2, "nil pointer dereference"), val |-> x]
    ELSE decodedField(decodeValueT(d2, 0, -1, TRUE, x.v[i], canSet, TRUE, TRUE, TRUE), i, x)

\* one pair of the field loop with the key decoded
fieldKey(k, i, x, canSet) ==
    fieldValue(IF ~k.d.panicking /\ i = 0 THEN err(k.d, "DecodeValue: Invalid Enc Field") ELSE k.d,
               i, x, canSet)

\* one pair of the field loop with the key decoded, a key that names no field skipped
fieldKeySkipUnknown(k, i, x, canSet) ==
    IF k.d.panicking THEN [d |-> k.d, val |-> x]
    ELSE decodedFieldSkipUnknown(
            decodeValueT(k.d, 0, -1, TRUE, IF i = 0 THEN Zero(intfTyp) ELSE x.v[i],
                         canSet, TRUE, TRUE, TRUE),
            i, x)

\* the key of a field decoded into a string
fieldName(dd) == decodeValue(dd, 0, -1, TRUE, V(stringTyp, <<>>), TRUE)

\* the field the decoded key k names
fieldOf(k, x) == getForEncName(x.ty, k.slot.v)

\* one pair of the field loop from the key decoded on
decodeField(k, x, canSet) == fieldKey(k, fieldOf(k, x), x, canSet)

\* one pair of the field loop from the key decoded on, a key that names no field skipped
decodeFieldSkipUnknown(k, x, canSet) == fieldKeySkipUnknown(k, fieldOf(k, x), x, canSet)

\* the field loop from pair j on, p the struct after the pairs before it
decodeFieldsFrom(p, j, containerLen, canSet) == decodeFields(p.d, p.val, j, containerLen, canSet)

\* decodeFields with a key that names no field skipped, its value decoded and dropped
decodeFieldsSkipUnknown(dd, x, j, containerLen, canSet) ==
    IF dd.panicking \/ j >= containerLen THEN [d |-> dd, val |-> x]
    ELSE IF j + 1 < containerLen
    THEN decodeFieldsFrom(decodeFields(dd, x, j, (j + containerLen) \div 2, canSet),
                          (j + containerLen) \div 2, containerLen, canSet)
    ELSE decodeFieldSkipUnknown(fieldName(dd), x, canSet)

\* the field loop of case reflect.Struct: the iterations j .. containerLen-1
\* in order, the first half and then the rest; a panic ends the loop
decodeFields(dd, x, j, containerLen, canSet) ==
    IF dd.panicking \/ j >= containerLen THEN [d |-> dd, val |-> x]
    ELSE IF j + 1 < containerLen
    THEN decodeFieldsFrom(decodeFields(dd, x, j, (j + containerLen) \div 2, canSet),
                          (j + containerLen) \div 2, containerLen, canSet)
    ELSE decodeField(fieldName(dd), x, canSet)

\* rv.Set(reflect.ValueOf(time.Unix(tt[0], tt[1]).UTC())), r the [2]int64 decoded
timeSet(r, x, canSet) == SetTo(Set(r.d, canSet), x, V(x.ty, <<r.slot.v[1].v, r.slot.v[2].v>>))

\* case reflect.Struct once the number L of fields on the wire is known
structBody(L, x, canSet) ==
    IF L.d.panicking \/ L.l = 0 THEN [d |-> L.d, val |-> x]
    ELSE decodeFields(Declared(L.d, L.l), x, 0, L.l, canSet)

\* case reflect.Struct of decodeValue: a time.Time from [2]int64, any other
\* struct from a map of its fields
decodeStruct(dd, bd, containerLen0, x, canSet) ==
    IF x.ty = timeTyp
    THEN timeSet(decodeValue(dd, bd, -1, FALSE, Zero(ArrayOf(2, int64Typ)), TRUE), x, canSet)
    ELSE structBody(containerLenOr(dd, bd, containerLen0, ContainerMap), x, canSet)

\* rvv of the pair loop when it is a nil interface{}: nilIntfDecode, then the
\* resolver's container decoded and set.  slot is what SetMapIndex is given.
decodeValueNilIntf(dd, parent, rvv, canSet) ==
    resolve(nilIntfDecode(dd, 0, -1, TRUE, FALSE, rvv, canSet), parent, rvv.ty, canSet, FALSE)

\* the value of a pair decoded into rvv
pairValue(dd, x, rvv, canSet) ==
    IF x.ty.e = intfTyp /\ IsNil(rvv) THEN decodeValueNilIntf(dd, x, rvv, canSet)
    ELSE rvnOf(decodeValueT(dd, 0, -1, TRUE, rvv, canSet, TRUE, TRUE, FALSE))

\* the map after rv.SetMapIndex(rvk, rvv).  What was decoded into a value
\* obtained by MapIndex, through a pointer, a slice or a map it holds, is
\* shared with the map's entry even if the decoding panics.
decodedPair(e, key, found, x) ==
    IF e.d.panicking
    THEN [d |-> e.d, val |-> IF IsValid(found) THEN SetMapIndex(x, key, e.slot) ELSE x]
    ELSE [d |-> Decoded(e.d), val |-> SetMapIndex(x, key, Assign(x.ty.e, e.slot))]

\* one pair of the pair loop with rvv = rv.MapIndex(rvk) found: a value so
\* obtained is not settable; an absent one is a new zero value
pairFound(d2, key, found, x) ==
    decodedPair(pairValue(d2, x, IF IsValid(found) THEN found ELSE Zero(x.ty.e), ~IsValid(found)),
                key, found, x)

\* one pair of the pair loop with the key decoded
pairKey(d1, key, x) ==
    IF d1.panicking THEN [d |-> d1, val |-> x]
    ELSE IF ~Hashable(key)
    THEN [d |-> runtimePanic(d1, "runtime error: hash of unhashable type"), val |-> x]
    ELSE pairFound(d1, key, MapIndex(x, key), x)

\* the key of a pair decoded into a new value of the key type
keyDecoded(dd, x) == decodeValueT(dd, 0, -1, TRUE, Zero(x.ty.key), TRUE, TRUE, TRUE, FALSE)

\* if ktype == intfTyp { if rvk.Type() == byteSliceTyp { rvk = string(rvk.Bytes()) } }
coerced(ktype, rvk) ==
    IF ktype = intfTyp /\ rvk.ty = byteSliceTyp THEN V(stringTyp, Bytes(rvk)) ELSE rvk

\* one pair of the pair loop from the key decoded on
decodePair(tk, x) == pairKey(tk.d, KeyOf(coerced(x.ty.key, tk.rvn)), x)

\* one pair of the pair loop from the key decoded on, the key left as decoded
decodePairNoCoercion(tk, x) == pairKey(tk.d, KeyOf(tk.rvn), x)

\* the pair loop from pair j on, p the map after the pairs before it
decodePairsFrom(p, j, containerLen) == decodePairs(p.d, p.val, j, containerLen)

\* decodePairs with the key left as decoded: no coercion of []byte to string
decodePairsNoCoercion(dd, x, j, containerLen) ==
    IF dd.panicking \/ j >= containerLen THEN [d |-> dd, val |-> x]
    ELSE IF j + 1 < containerLen
    THEN decodePairsFrom(decodePairs(dd, x, j, (j + containerLen) \div 2),
                         (j + containerLen) \div 2, containerLen)
    ELSE decodePairNoCoercion(keyDecoded(dd, x), x)

\* the pair loop of case reflect.Map: the iterations j .. containerLen-1 in
\* order, the first half and then the rest; a panic ends the loop
decodePairs(dd, x, j, containerLen) ==
    IF dd.panicking \/ j >= containerLen THEN [d |-> dd, val |-> x]
    ELSE IF j + 1 < containerLen
    THEN decodePairsFrom(decodePairs(dd, x, j, (j + containerLen) \div 2),
                         (j + containerLen) \div 2, containerLen)
    ELSE decodePair(keyDecoded(dd, x), x)

\* case reflect.Map once the number L of pairs is known
mapBody(L, x, canSet) ==
    IF L.d.panicking \/ L.l = 0 THEN [d |-> L.d, val |-> x]
    ELSE IF IsNil(x) /\ Set(L.d, canSet).panicking THEN [d |-> Set(L.d, canSet), val |-> x]
    ELSE decodePairs(Declared(L.d, L.l), IF IsNil(x) THEN MakeMap(x.ty) ELSE x, 0, L.l)

\* case reflect.Map of decodeValue
decodeMap(dd, bd, containerLen0, x, canSet) ==
    mapBody(containerLenOr(dd, bd, containerLen0, ContainerMap), x, canSet)

\* decodeValue from the nil check on: bd is the descriptor byte and rv the
\* Value decoded into, after nilIntfDecode if rv0 was a nil interface{}
decodeBody(dd, bd, containerLen, x, canSet) ==
    IF dd.panicking THEN [d |-> dd, val |-> x]
    ELSE IF bd = 192 THEN SetTo(Set(dd, canSet), x, Zero(x.ty))                         \* 0xc0
    ELSE CASE Kind(x) \in {"ptr", "interface"} -> decodePtr(dd, bd, containerLen, x, canSet)
           [] Kind(x) \in {"bool"} \cup IntKinds \cup UintKinds \cup FloatKinds ->
                  decodeScalar(dd, bd, x, canSet)
           [] Kind(x) \in {"slice", "array", "string"} -> decodeSeq(dd, bd, containerLen, x, canSet)
           [] Kind(x) = "struct" -> decodeStruct(dd, bd, containerLen, x, canSet)
           [] Kind(x) = "map" -> decodeMap(dd, bd, containerLen, x, canSet)
           [] OTHER -> [d |-> dd, val |-> x]

\* what decodeValue returns for a Value that was no nil interface{}
decoded(b) == [d |-> b.d, wasNilIntf |-> FALSE, slot |-> b.val, rv |-> b.val]

\* what decodeValue returns for a nil interface{} that nilIntfDecode left to it
decodedNilIntf(bn, n, rv0) ==
    [d |-> bn.d, wasNilIntf |-> TRUE,
     slot |-> IF n.elem THEN Assign(rv0.ty, bn.val) ELSE bn.val,
     rv |-> bn.val]

\* afterNilIntf with the length nilIntfDecode read not passed on: the body
\* reads the length again
afterNilIntfLenReread(n, rv0, canSet) ==
    IF n.d.panicking \/ n.handled
    THEN [d |-> n.d, wasNilIntf |-> TRUE, slot |-> n.slot, rv |-> n.rv]
    ELSE decodedNilIntf(decodeBody(n.d, n.bd, -1, n.rv, IF n.elem THEN FALSE ELSE canSet), n, rv0)

\* decodeValue after nilIntfDecode returned n
afterNilIntf(n, rv0, canSet) ==
    IF n.d.panicking \/ n.handled
    THEN [d |-> n.d, wasNilIntf |-> TRUE, slot |-> n.slot, rv |-> n.rv]
    ELSE decodedNilIntf(decodeBody(n.d, n.bd, n.containerLen, n.rv, IF n.elem THEN FALSE ELSE canSet),
                        n, rv0)

\* decodeValue with the descriptor byte bd known
decodeValueDesc(d1, bd, containerLen0, rv0, canSet) ==
    IF d1.panicking THEN [d |-> d1, wasNilIntf |-> FALSE, slot |-> rv0, rv |-> rv0]
    ELSE IF Kind(rv0) = "interface" /\ IsNil(rv0)
    THEN afterNilIntf(nilIntfDecode(d1, bd, containerLen0, FALSE, TRUE, rv0, canSet), rv0, canSet)
    ELSE decoded(decodeBody(d1, bd, containerLen0, rv0, canSet))

\* decodeValue after if readDesc { bd = d.readUint8() }
decodeValueRead(d1, bd0, containerLen0, readDesc, rv0, canSet) ==
    decodeValueDesc(d1, IF readDesc /\ ~d1.panicking THEN d1.x[1] ELSE bd0, containerLen0, rv0, canSet)

\* decodeValue(bd, containerLen, readDesc, rv0), rv0 settable iff canSet:
\* [d, wasNilIntf, slot, rv], slot what rv0's storage holds afterwards
decodeValue(dd, bd0, containerLen0, readDesc, rv0, canSet) ==
    decodeValueRead(IF readDesc THEN readT(dd, 1) ELSE dd, bd0, containerLen0, readDesc, rv0, canSet)

\* ------------------------------------------------------------------ DecodeValue

\* panicToErr(&err), deferred by DecodeValue: a panic becomes the error returned
panicToErr(dd) == IF dd.panicking THEN dd.msg ELSE "nil"

\* the Decoder as a call of DecodeValue finds it: no panic, nothing noted yet
Enter(dd) ==
    [dd EXCEPT !.panicking = FALSE, !.msg = "nil", !.faults = 0, !.late = 0,
               !.reads = <<>>, !.lens = <<>>, !.resolved = 0, !.pending = 0]

\* what DecodeValue returns after decodeValueT returned t
returned(t) == [d |-> t.d, v |-> AddrOf(t.slot), err |-> panicToErr(t.d)]

\* DecodeValue(rv), rv the pointer passed: [d, v, err], v the pointer afterwards
DecodeValue(dd, ptr) ==
    IF Kind(ptr) # "ptr" \/ IsNil(ptr)
    THEN [d |-> Enter(dd), v |-> ptr,
          err |-> "DecodeValue: Expecting valid pointer to decode into"]
    ELSE returned(decodeValueT(Enter(dd), 0, -1, TRUE, Elem(ptr), TRUE, TRUE, TRUE, TRUE))

\* NewDecoder(r, dam): the scratch x is zeroed
NewDecoder(r, dam) ==
    [r |-> r, dam |-> dam, x |-> Rep(16, 0), bs |-> <<>>,
     panicking |-> FALSE, msg |-> "nil", faults |-> 0, late |-> 0,
     reads |-> <<>>, lens |-> <<>>, resolved |-> 0, pending |-> 0]

\* DefaultDecoderContainerResolver
NoType == [k |-> "nil"]
DefaultDecoderContainerResolver ==
    [MapType |-> NoType, SliceType |-> NoType, BytesStringLiteral |-> TRUE,
     BytesStringSliceElement |-> TRUE, BytesStringMapValue |-> TRUE]

\* ------------------------------------------------------------------ the calls

\* a bytes.Buffer over buf, as Unmarshal makes it
Buffer(buf) == [buf |-> buf, sched |-> <<>>, stall |-> FALSE]

\* the sequences over A of length at most n
SeqsUpTo(A, n) == UNION {[1..k -> A] : k \in 0..n}

int8Typ == [k |-> "int8"]
Int8(n) == V(int8Typ, <<n>>)
String(bs) == V(stringTyp, bs)

\* a struct type with fields of the given one-byte names and types
StructOf(names, tys) == [k |-> "struct", f |-> [i \in 1..Len(names) |-> [name |-> <<names[i]>>, ty |-> tys[i]]]]

\* Decode returns: the Decoder, the destination and the error are those of DecodeValue
Returns(res) ==
    /\ d' = res.d
    /\ rv' = Elem(res.v)
    /\ ret' = res.err

\* Decode returns without a destination: the Decoder and the error are those of DecodeValue
Rejects(res) ==
    /\ d' = res.d
    /\ ret' = res.err

\* Decoder.Decode(&rv): the first call on the decoder
Decode ==
    /\ pc = 0
    /\ Returns(DecodeValue(d, AddrOf(rv)))
    /\ pre' = rv
    /\ pc' = pc + 1
    /\ UNCHANGED arg

\* Decoder.Decode(p) with p a nil pointer: rejected before any byte is read
DecodeNilPointer ==
    /\ pc = 0
    /\ Rejects(DecodeValue(d, Zero(PtrTo(rv.ty))))
    /\ pre' = rv
    /\ pc' = pc + 1
    /\ UNCHANGED <<rv, arg>>

\* ------------------------------------------------------------------ Spec: faults

\* the bytes the streams of Spec are made of: 'a' (also fixnum 97), a
\* 2-element list, a 1-pair map, a 1-byte raw, the reserved byte, true
FaultBytes == {97, 146, 129, 161, 193, 195}

\* the destinations of Spec
FaultDests ==
    { Zero(intfTyp), Zero(int8Typ), Zero(stringTyp), Zero(SliceOf(int8Typ)),
      Zero(ArrayOf(1, int8Typ)), Zero(StructOf(<<97>>, <<int8Typ>>)),
      Zero(MapOf(stringTyp, intfTyp)) }

Init ==
    /\ \E buf \in SeqsUpTo(FaultBytes, MaxStream) :
          /\ d = NewDecoder(Buffer(buf), DefaultDecoderContainerResolver)
          /\ arg = [stream |-> buf]
    /\ rv \in FaultDests
    /\ pre = rv
    /\ ret = "nil"
    /\ pc = 0

Next == Decode \/ DecodeNilPointer

Spec == Init /\ [][Next]_vars

\* the bytes of the stream the call has consumed
Consumed == Len(arg.stream) - Len(d.r.buf)

\* the Read calls of the last call that failed: an error, or a retry that came short
FailedReads ==
    {i \in 1..Len(d.reads) : d.reads[i].err \/ (~d.reads[i].first /\ d.reads[i].got # d.reads[i].want)}

\* C1: the first fault raised inside a decode call ends it: it is the only
\* fault, no Read is issued after it (a failed Read is the last Read), the
\* elements still declared stay undecoded, and the call returns an error; a
\* call that returns no error has raised no fault and has decoded every
\* element its containers declared.
C1_FirstFaultEndsCall ==
    pc = 1 =>
        /\ d.faults > 0 => (ret # "nil" /\ d.faults = 1 /\ d.late = 0)
        /\ \A i \in FailedReads : i = Len(d.reads) /\ ret # "nil"
        /\ ret = "nil" => (d.faults = 0 /\ d.pending = 0)

\* a fault inside a container with a sibling still to decode and bytes still unread
C1_Witness ==
    /\ pc = 1
    /\ ret = "Nil-Deciphered DecodeValue: Unrecognized descriptor byte"
    /\ d.pending = 2
    /\ Len(d.r.buf) > 0
    /\ d.faults = 1

\* ------------------------------------------------------------------ SpecReserved: the byte 0xc1

\* the longest tail enumerated after a tag byte
MaxTail == 2

float64Typ == [k |-> "float64"]

\* a destination of every kind
ReservedDests ==
    { Zero(boolTyp), Zero(int8Typ), Zero(uint8Typ), Zero(float64Typ), Zero(stringTyp),
      Zero(byteSliceTyp), Zero(SliceOf(int8Typ)), Zero(ArrayOf(1, int8Typ)),
      Zero(MapOf(int8Typ, intfTyp)), Zero(StructOf(<<97>>, <<int8Typ>>)),
      Zero(PtrTo(int8Typ)), Zero(intfTyp), Zero(timeTyp) }

\* n pairs of the fixnum key 1 and nil; n fields "a" of fixnum 1
NilPairs(n) == [i \in 1..(2 * n) |-> IF i % 2 = 1 THEN 1 ELSE 192]
FieldPairs(n) == [i \in 1..(3 * n) |-> IF i % 3 = 1 THEN 161 ELSE IF i % 3 = 2 THEN 97 ELSE 1]

\* what follows the byte 0xc1: short tails, and as many pairs as the map
\* descriptor mask leaves of 0xc1
ReservedTails ==
    SeqsUpTo({1, 161, 192}, MaxTail) \cup {NilPairs(BitXor(128, 193)), FieldPairs(BitXor(128, 193))}

InitReserved ==
    /\ \E tail \in ReservedTails :
          /\ d = NewDecoder(Buffer(<<193>> \o tail), DefaultDecoderContainerResolver)
          /\ arg = [stream |-> <<193>> \o tail]
    /\ rv \in ReservedDests
    /\ pre = rv
    /\ ret = "nil"
    /\ pc = 0

SpecReserved == InitReserved /\ [][Next]_vars

\* C2: a value whose tag byte is 0xc1 is a fault for a destination of every
\* kind (the call returns an error), and no container length is derived from
\* the byte 0xc1.
C2_ReservedIsFault ==
    (pc = 1 /\ arg.stream[1] = 193) =>
        /\ ret # "nil"
        /\ \A i \in 1..Len(d.lens) : d.lens[i] # 193

\* ------------------------------------------------------------------ SpecString: a string destination

\* the tags of raw bytes: fixed raw, raw16, raw32
RawTags == (160..191) \cup {218, 219}

\* what follows the tag: short tails, and for a tag with the bits of the raw
\* mask as many bytes as the mask leaves of it
StringTails(tag) ==
    SeqsUpTo({0, 1, 97}, MaxTail) \cup
        (IF BitAnd(160, tag) = 160 THEN {Rep(BitXor(160, tag), 97)} ELSE {})

InitString ==
    /\ \E tag \in 0..255 : \E tail \in StringTails(tag) :
          /\ d = NewDecoder(Buffer(<<tag>> \o tail), DefaultDecoderContainerResolver)
          /\ arg = [stream |-> <<tag>> \o tail]
    /\ rv \in {String(<<>>), String(<<120>>)}
    /\ pre = rv
    /\ ret = "nil"
    /\ pc = 0

SpecString == InitString /\ [][Next]_vars

\* C3: decoding into a string destination, every tag that is not a raw-bytes
\* tag (and not nil, 0xc0) is a fault: the sequence, map, fixnum, boolean,
\* float and integer tags return an error and never produce a string.
C3_StringOnlyFromRaw ==
    (pc = 1 /\ arg.stream[1] \notin RawTags \cup {192}) => (ret # "nil" /\ rv = pre)

\* ------------------------------------------------------------------ SpecNil: the byte 0xc0

\* a Decode call that got past the pointer check: it has read the first tag
Decoding == pc = 1 /\ d.reads # <<>>

\* a map[string]T of the given entries
MapWith(T, entries) == V(MapOf(stringTyp, T), [m |-> entries, nl |-> FALSE])

\* values that are not the zero value of their type, one of every kind
NonZero ==
    { V(boolTyp, TRUE), Int8(5), V(uint8Typ, <<5>>),
      V(float64Typ, [bits |-> <<64, 0, 0, 0, 0, 0, 0, 0>>, rnd |-> FALSE, w |-> 64]),
      String(<<120>>), ByteSlice(<<7>>),
      V(SliceOf(int8Typ), [arr |-> <<Int8(7)>>, len |-> 1, nl |-> FALSE]),
      V(ArrayOf(1, int8Typ), <<Int8(7)>>),
      MapWith(int8Typ, {[key |-> String(<<97>>), val |-> Int8(5)]}),
      V(StructOf(<<97>>, <<int8Typ>>), <<Int8(5)>>),
      AddrOf(Int8(5)) }

\* what a destination slot holds before the call: a value of a static type,
\* zero or not, or the unset open destination
NilPriors == NonZero \cup {Zero(x.ty) : x \in NonZero} \cup {Zero(intfTyp)}

\* where the slot is: the root, an element of a slice or of an array, the
\* value of a map entry that is absent or present, a field of a record
NilPlaces == {"root", "slice", "array", "absent", "present", "field"}

\* the destination that holds x at the place, and the bytes that lead to the slot
NilDest(place, x) ==
    CASE place = "root"    -> x
      [] place = "slice"   -> V(SliceOf(x.ty), [arr |-> <<x>>, len |-> 1, nl |-> FALSE])
      [] place = "array"   -> V(ArrayOf(1, x.ty), <<x>>)
      [] place = "absent"  -> MapWith(x.ty, {})
      [] place = "present" -> MapWith(x.ty, {[key |-> String(<<97>>), val |-> x]})
      [] place = "field"   -> V(StructOf(<<97>>, <<x.ty>>), <<x>>)

NilLead(place) ==
    CASE place = "root"               -> <<>>
      [] place \in {"slice", "array"} -> <<145>>              \* 0x91
      [] OTHER                        -> <<129, 161, 97>>     \* 0x81 0xa1 'a'

\* the slot of the destination at the place
NilSlot(place, x) ==
    CASE place = "root"               -> x
      [] place \in {"slice", "array"} -> Index(x, 0)
      [] place = "field"              -> x.v[1]
      [] OTHER                        -> MapIndex(x, String(<<97>>))

InitNil ==
    /\ \E place \in NilPlaces : \E x \in NilPriors : \E tail \in SeqsUpTo({1}, MaxTail - 1) :
          \* a slice of uint8 is a byte sequence: its elements are no slots
          /\ place = "slice" => x.ty # uint8Typ
          /\ rv = NilDest(place, x)
          /\ d = NewDecoder(Buffer(NilLead(place) \o <<192>> \o tail), DefaultDecoderContainerResolver)
          /\ arg = [stream |-> NilLead(place) \o <<192>> \o tail, place |-> place, prior |-> x]
    /\ pre = rv
    /\ ret = "nil"
    /\ pc = 0

SpecNil == InitNil /\ [][Next]_vars

\* C4: the tag 0xc0 decoded into a destination of a static type sets it to
\* the zero value of that type whatever it held; decoded into an unset open
\* destination it leaves it nil, with no call of the resolver and no empty
\* container; the call succeeds and 0xc0 is the only byte consumed for the value.
C4_NilResets ==
    Decoding =>
        /\ ret = "nil"
        /\ Consumed = Len(NilLead(arg.place)) + 1
        /\ NilSlot(arg.place, rv) = Zero(arg.prior.ty)
        /\ arg.prior.ty = intfTyp => d.resolved = 0

\* ------------------------------------------------------------------ SpecRecord: a record destination

\* the most pairs of an enumerated map
MaxPairs == 2

\* the record decoded into: fields a and b, holding x and y
Record(x, y) == V(StructOf(<<97, 98>>, <<int8Typ, int8Typ>>), <<Int8(x), Int8(y)>>)

\* a map of one-byte raw keys and fixnum values on the wire
EncPairs(ps) ==
    <<128 + Len(ps)>> \o
        [i \in 1..(3 * Len(ps)) |->
            LET p == ps[(i + 2) \div 3]
            IN  IF i % 3 = 1 THEN 161 ELSE IF i % 3 = 2 THEN p.key ELSE p.val]

InitRecord ==
    /\ \E ps \in SeqsUpTo([key : {97, 98, 122}, val : {1, 2}], MaxPairs) :
          /\ d = NewDecoder(Buffer(EncPairs(ps)), DefaultDecoderContainerResolver)
          /\ arg = [stream |-> EncPairs(ps), pairs |-> ps]
    /\ rv \in {Record(x, y) : x \in {0, 5}, y \in {0, 6}}
    /\ pre = rv
    /\ ret = "nil"
    /\ pc = 0

SpecRecord == InitRecord /\ [][Next]_vars

\* the pairs of the wire map whose key names no field of the record
UnknownKeys == {i \in 1..Len(arg.pairs) : getForEncName(rv.ty, <<arg.pairs[i].key>>) = 0}

\* the field i of the record after the first n pairs: the value of the last
\* of them that names it, what it held before the call if none does
FieldAfter(i, n) ==
    LET named == {j \in 1..n : <<arg.pairs[j].key>> = rv.ty.f[i].name}
    IN  IF named = {} THEN pre.v[i]
        ELSE Int8(arg.pairs[CHOOSE j \in named : \A j2 \in named : j2 <= j].val)

\* C5: decoding a map into a record, a wire key that names no field stops the
\* call with a field fault before any byte of that key's value is consumed;
\* with every wire key naming a field the call succeeds, exactly the named
\* fields hold the decoded values and every other field holds what it held.
C5_RecordFields ==
    Decoding =>
        IF UnknownKeys # {}
        THEN LET i == CHOOSE i \in UnknownKeys : \A i2 \in UnknownKeys : i <= i2
             IN  /\ ret = "DecodeValue: Invalid Enc Field"
                 /\ Consumed = 1 + 3 * (i - 1) + 2
                 /\ \A f \in 1..Len(rv.v) : rv.v[f] = FieldAfter(f, i - 1)
        ELSE /\ ret = "nil"
             /\ Consumed = Len(arg.stream)
             /\ \A f \in 1..Len(rv.v) : rv.v[f] = FieldAfter(f, Len(arg.pairs))

\* an unknown key after a known one: a field decoded, then the field fault
C5_Witness ==
    /\ Decoding
    /\ Len(arg.pairs) = 2
    /\ UnknownKeys = {2}
    /\ ret = "DecodeValue: Invalid Enc Field"
    /\ rv # pre
    /\ Len(d.r.buf) = 1

\* ------------------------------------------------------------------ SpecRaw: raw bytes in an open slot

\* every setting of the three flags of the default resolver
Resolvers ==
    { [DefaultDecoderContainerResolver EXCEPT !.BytesStringLiteral = l,
          !.BytesStringSliceElement = e, !.BytesStringMapValue = m] : l, e, m \in BOOLEAN }

\* raw bytes with an inline length on the wire
EncRaw(bs) == <<160 + Len(bs)>> \o bs

\* the open slots raw bytes are decoded into: the place, the destination, and
\* the bytes that lead to the slot
RawSlots ==
    { [place |-> "root",  dest |-> Zero(intfTyp), lead |-> <<>>],
      [place |-> "slice", dest |-> Zero(intfSliceTyp), lead |-> <<145>>],
      [place |-> "slice", dest |-> MakeSlice(intfSliceTyp, 1), lead |-> <<145>>],
      [place |-> "slice", dest |-> Zero(intfTyp), lead |-> <<145>>],
      [place |-> "array", dest |-> Zero(ArrayOf(1, intfTyp)), lead |-> <<145>>],
      [place |-> "map",   dest |-> Zero(MapOf(stringTyp, intfTyp)), lead |-> <<129, 161, 97>>],
      [place |-> "map",   dest |-> Zero(intfTyp), lead |-> <<129, 161, 97>>] }

InitRaw ==
    /\ \E slot \in RawSlots : \E bs \in SeqsUpTo({97, 98}, MaxTail) : \E dam \in Resolvers :
          /\ rv = slot.dest
          /\ d = NewDecoder(Buffer(slot.lead \o EncRaw(bs)), dam)
          /\ arg = [stream |-> slot.lead \o EncRaw(bs), place |-> slot.place, raw |-> bs]
    /\ pre = rv
    /\ ret = "nil"
    /\ pc = 0

SpecRaw == InitRaw /\ [][Next]_vars

\* the concrete value of x: what an interface holds, x itself otherwise
Concrete(x) == IF Kind(x) = "interface" THEN x.v ELSE x

\* the concrete value in the slot at the place
RawSlot(place) ==
    CASE place = "root" -> Concrete(rv)
      [] place = "map"  -> Concrete(MapIndex(Concrete(rv), String(<<97>>)))
      [] OTHER          -> Concrete(Index(Concrete(rv), 0))

\* the flag of the resolver that the spec gives the place
RawFlag(place) ==
    CASE place = "root" -> d.dam.BytesStringLiteral
      [] place = "map"  -> d.dam.BytesStringMapValue
      [] OTHER          -> d.dam.BytesStringSliceElement

\* C6: raw bytes decoded into an open slot become a string when the flag of
\* the slot's place is set and a byte sequence when it is not: the flag
\* BytesStringLiteral at the top level, BytesStringSliceElement for an element
\* of a sequence destination (a fixed array or a growable sequence),
\* BytesStringMapValue for a map value.
C6_RawByPlace ==
    Decoding =>
        /\ ret = "nil"
        /\ RawSlot(arg.place) = IF RawFlag(arg.place) THEN String(arg.raw) ELSE ByteSlice(arg.raw)

\* ------------------------------------------------------------------ SpecKeys: a map with open keys

\* keys on the wire, each with the value it decodes to in an open slot: raw
\* bytes with an inline and a 16-bit length, true, fixnums, a uint8
WireKeys ==
    { [enc |-> <<161, 97>>,       raw |-> TRUE,  val |-> String(<<97>>)],
      [enc |-> <<160>>,           raw |-> TRUE,  val |-> String(<<>>)],
      [enc |-> <<218, 0, 1, 98>>, raw |-> TRUE,  val |-> String(<<98>>)],
      [enc |-> <<195>>,           raw |-> FALSE, val |-> V(boolTyp, TRUE)],
      [enc |-> <<1>>,             raw |-> FALSE, val |-> Int8(1)],
      [enc |-> <<255>>,           raw |-> FALSE, val |-> Int8(255)],
      [enc |-> <<204, 5>>,        raw |-> FALSE, val |-> V(uint8Typ, <<5>>)] }

RECURSIVE EncKeys(_)
\* the pairs of the keys ks, each with the fixnum 1 as its value, on the wire
EncKeys(ks) == IF ks = <<>> THEN <<>> ELSE Head(ks).enc \o <<1>> \o EncKeys(Tail(ks))

\* the destinations with open keys: a map of a static value type, nil or
\* empty, a map of open values, the open root
KeyDests ==
    { Zero(MapOf(intfTyp, int8Typ)), MakeMap(MapOf(intfTyp, int8Typ)),
      Zero(mapIntfIntfTyp), Zero(intfTyp) }

InitKeys ==
    /\ \E ks \in SeqsUpTo(WireKeys, MaxPairs) : \E dam \in Resolvers :
          /\ d = NewDecoder(Buffer(<<128 + Len(ks)>> \o EncKeys(ks)), dam)
          /\ arg = [stream |-> <<128 + Len(ks)>> \o EncKeys(ks), keys |-> ks]
    /\ rv \in KeyDests
    /\ pre = rv
    /\ ret = "nil"
    /\ pc = 0

SpecKeys == InitKeys /\ [][Next]_vars

\* the entries of the map decoded into
Entries == IF Kind(Concrete(rv)) = "map" THEN Concrete(rv).v.m ELSE {}

\* C7: decoding into a map with open keys, under every setting of the
\* resolver's flags, a key that is raw bytes on the wire is stored as a
\* string, never as a byte sequence, and any other key is stored as it decodes.
C7_OpenKeys ==
    Decoding =>
        /\ \A en \in Entries : Kind(en.key) # "slice"
        /\ (\A i, j \in 1..Len(arg.keys) : arg.keys[i] = arg.keys[j] => i = j) =>
              /\ ret = "nil"
              /\ {en.key : en \in Entries} = {arg.keys[i].val : i \in 1..Len(arg.keys)}
              /\ \A en \in Entries : Concrete(en.val) = Int8(1)

\* a raw key and a fixnum key stored by a resolver that makes raw bytes a byte sequence
C7_Witness ==
    /\ Decoding
    /\ ret = "nil"
    /\ ~d.dam.BytesStringLiteral
    /\ {en.key : en \in Entries} = {String(<<97>>), Int8(1)}

\* ------------------------------------------------------------------ SpecWidth: the encodings of a length

\* the longest container whose elements are enumerated
MaxLen == 2

\* the three encodings of a container length
Widths == {"inline", "w16", "w32"}

\* the largest length the inline encoding of the category expresses: the low
\* 5 bits of a raw-bytes tag, the low 4 bits of a sequence or map tag
InlineMax(ct) == IF ct = ContainerRawBytes THEN 31 ELSE 15

\* the header of a container of category ct and length l in the encoding w
Header(ct, l, w) ==
    LET c == getContainerByteDesc(ct)
    IN  CASE w = "inline" -> <<c.b0 + l>>
          [] w = "w16"    -> <<c.b1, l \div 256, l % 256>>
          [] w = "w32"    -> <<c.b2, 0, 0, l \div 256, l % 256>>

\* the bytes that follow the header of l elements: all of them or one short,
\* enumerated for a container of up to MaxLen elements
Bodies(ct, l) ==
    LET n == IF ct = ContainerMap THEN 2 * l ELSE l
        A == IF ct = ContainerRawBytes THEN {97, 98} ELSE {1, 2}
    IN  IF l > MaxLen THEN {<<>>}
        ELSE [1..n -> A] \cup (IF n > 0 THEN [1..(n - 1) -> A] ELSE {})

\* the destinations a container of the category is decoded into
WidthDests(ct) ==
    CASE ct = ContainerRawBytes -> {Zero(stringTyp), Zero(byteSliceTyp), Zero(intfTyp)}
      [] ct = ContainerList     -> {Zero(SliceOf(int8Typ)), Zero(ArrayOf(2, int8Typ)), Zero(intfTyp)}
      [] ct = ContainerMap      -> {Zero(MapOf(int8Typ, int8Typ)), Zero(intfTyp)}

\* what a decode is compared by: the length the codec gives, the error
\* returned, the destination and the bytes left unread
NotDecoded == [l |-> -1, err |-> "none", v |-> Invalid, rest |-> <<>>]

InitWidth ==
    /\ \E ct \in ContainerTypes : \E l \in 0..InlineMax(ct) : \E body \in Bodies(ct, l) :
          /\ rv \in WidthDests(ct)
          /\ arg = [ct |-> ct, len |-> l, body |-> body, done |-> {},
                    res |-> [w \in Widths |-> NotDecoded]]
    /\ d = NewDecoder(Buffer(<<>>), DefaultDecoderContainerResolver)
    /\ pre = rv
    /\ ret = "nil"
    /\ pc = 0

\* Decode returns and the results of encoding w are recorded: the length L
\* the codec gave and what Decode returned
WidthReturns(w, L, res) ==
    /\ Returns(res)
    /\ arg' = [arg EXCEPT !.done = @ \cup {w},
                          !.res[w] = [l |-> L.l, err |-> res.err, v |-> Elem(res.v),
                                      rest |-> res.d.r.buf]]

\* the codec and Decode applied to the header h
DecodeHeader(w, h) ==
    WidthReturns(w, readContainerLen(NewDecoder(Buffer(Tail(h)), d.dam), h[1], FALSE, arg.ct),
                 DecodeValue(NewDecoder(Buffer(h \o arg.body), d.dam), AddrOf(pre)))

\* the container decoded from its encoding w: the codec applied to the
\* header alone, and Decode applied to the header and the body
DecodeWidth(w) ==
    /\ w \notin arg.done
    /\ DecodeHeader(w, Header(arg.ct, arg.len, w))
    /\ pc' = pc + 1
    /\ UNCHANGED pre

DecodeInline == DecodeWidth("inline")
Decode16 == DecodeWidth("w16")
Decode32 == DecodeWidth("w32")

NextWidth == DecodeInline \/ Decode16 \/ Decode32

SpecWidth == InitWidth /\ [][NextWidth]_vars

\* C8: for each container category and each length the inline encoding
\* expresses, the inline, the 16-bit and the 32-bit header give the same
\* length, and followed by the same bytes they give the same destination,
\* the same error or none, and leave the same bytes unread.
C8_WidthIndependent ==
    /\ \A w \in arg.done : arg.res[w].l = arg.len
    /\ \A w1, w2 \in arg.done : arg.res[w1] = arg.res[w2]

\* a sequence of two elements decoded from all three encodings
C8_Witness ==
    /\ arg.done = Widths
    /\ arg.ct = ContainerList
    /\ arg.len = 2
    /\ ret = "nil"
    /\ LenOf(Concrete(rv)) = 2

\* ------------------------------------------------------------------ SpecReadb: short reads

\* the bytes of the sources: the raw bytes <<1, 2>> on the wire, then 3
ReadData == <<162, 1, 2, 3>>

\* what one Read of a schedule does: at most max bytes, with or without an error
ReadSteps == [max : 0..MaxRead, err : BOOLEAN]

InitReadb ==
    /\ \E k \in 0..Len(ReadData) : \E sched \in SeqsUpTo(ReadSteps, MaxSched) : \E stall \in BOOLEAN :
          /\ d = NewDecoder([buf |-> SubSeq(ReadData, 1, k), sched |-> sched, stall |-> stall],
                            DefaultDecoderContainerResolver)
          /\ arg = [op |-> "none", numbytes |-> 0, stream |-> SubSeq(ReadData, 1, k),
                    sched |-> sched, stall |-> stall]
    /\ rv = Zero(stringTyp)
    /\ pre = rv
    /\ ret = "nil"
    /\ pc = 0

\* d.readb(numbytes, bs) as every reader of the decoder calls it, bs of numbytes bytes
Readb ==
    /\ pc = 0
    /\ \E numbytes \in 1..MaxRead :
          /\ d' = readb(Enter(d), numbytes, Rep(numbytes, 0))
          /\ arg' = [arg EXCEPT !.op = "readb", !.numbytes = numbytes]
    /\ ret' = panicToErr(d')
    /\ pc' = pc + 1
    /\ UNCHANGED <<rv, pre>>

\* Decoder.Decode(&rv) from the scheduled source
DecodeScheduled ==
    /\ pc = 0
    /\ Returns(DecodeValue(d, AddrOf(rv)))
    /\ arg' = [arg EXCEPT !.op = "decode"]
    /\ pc' = pc + 1
    /\ UNCHANGED pre

NextReadb == Readb \/ DecodeScheduled

SpecReadb == InitReadb /\ [][NextReadb]_vars

\* the bytes the Read calls of the last call delivered
RECURSIVE Delivered(_)
Delivered(log) == IF log = <<>> THEN 0 ELSE log[1].got + Delivered(Tail(log))

\* the source delivers nothing and reports nothing, whatever is asked of it
Silent == arg.stall /\ \A i \in 1..Len(arg.sched) : arg.sched[i].max = 0 /\ ~arg.sched[i].err

\* C9: a readb of n bytes issues one Read and, only when that Read came
\* short without an error, one more for the bytes missing, written after the
\* bytes received; it succeeds only if the two Reads deliver exactly n bytes,
\* and a reported error or a short second Read is a read fault.  So at most
\* two Reads serve each readb of a decode call, a failed Read is its last,
\* and on a source that keeps delivering nothing the call ends with a read fault.
C9_ReadbRetriesOnce ==
    /\ arg.op = "readb" =>
          LET log == d.reads
              n   == arg.numbytes
          IN  /\ Len(log) \in 1..2
              /\ log[1].first /\ log[1].want = n
              /\ Len(log) = 2 <=> (~log[1].err /\ log[1].got < n)
              /\ Len(log) = 2 => (~log[2].first /\ log[2].want = n - log[1].got)
              /\ SubSeq(d.bs, 1, Delivered(log)) = SubSeq(arg.stream, 1, Delivered(log))
              /\ ret = "nil" <=> (Delivered(log) = n /\ \A i \in 1..Len(log) : ~log[i].err)
              /\ ret # "nil" => ret \in {"Error", "read: Incorrect num bytes read"}
              /\ (ret = "Error") <=> (\E i \in 1..Len(log) : log[i].err)
    /\ arg.op = "decode" =>
          /\ \A i \in 1..Len(d.reads) : ~d.reads[i].first => (i > 1 /\ d.reads[i - 1].first)
          /\ \A i \in FailedReads : i = Len(d.reads)
          /\ Silent => (ret = "read: Incorrect num bytes read" /\ Len(d.reads) = 2)

\* a readb of 3 bytes served by a Read of 1 byte and a Read of 2
C9_Witness ==
    /\ arg.op = "readb"
    /\ arg.numbytes = 3
    /\ Len(d.reads) = 2
    /\ d.reads[1].got = 1
    /\ d.reads[2].got = 2
    /\ ret = "nil"
    /\ d.bs = <<162, 1, 2>>

\* ------------------------------------------------------------------ SpecSlice: a growable sequence destination

\* the largest capacity of a slice decoded into, and the longest sequence on the wire
MaxCap == 3

\* a []int8 of length n and capacity c, every element of its array 7
SliceOfSevens(n, c) == V(SliceOf(int8Typ), [arr |-> Rep(c, Int8(7)), len |-> n, nl |-> FALSE])

\* the slice before the call: nil, or of any length within any capacity
SlicePriors ==
    {Zero(SliceOf(int8Typ))} \cup UNION {{SliceOfSevens(n, c) : n \in 0..c} : c \in 0..MaxCap}

InitSlice ==
    /\ \E l \in 0..MaxCap : \E elems \in [1..l -> {1, 2}] :
          /\ d = NewDecoder(Buffer(<<144 + l>> \o elems), DefaultDecoderContainerResolver)
          /\ arg = [stream |-> <<144 + l>> \o elems, len |-> l]
    /\ rv \in SlicePriors
    /\ pre = rv
    /\ ret = "nil"
    /\ pc = 0

SpecSlice == InitSlice /\ [][Next]_vars

\* C10: after a successful decode of a sequence of length L into a slice, the
\* slice has length exactly L, whether it was nil, shorter with or without
\* the capacity for L, of length L, or longer than L.
C10_SliceLenIsWireLen ==
    (Decoding /\ ret = "nil") => LenOf(rv) = arg.len

\* ------------------------------------------------------------------ SpecArray: a fixed-array destination

\* the largest fixed array decoded into; the sequences on the wire are up to one longer
MaxArr == 3

\* the [n]int8 arrays before the call, every slot 0 or 7
ArrayPriors ==
    UNION {{V(ArrayOf(n, int8Typ), [i \in 1..n |-> Int8(a[i])]) : a \in [1..n -> {0, 7}]} : n \in 0..MaxArr}

InitArray ==
    /\ \E l \in 0..(MaxArr + 1) : \E elems \in [1..l -> {1, 2}] :
          /\ d = NewDecoder(Buffer(<<144 + l>> \o elems), DefaultDecoderContainerResolver)
          /\ arg = [stream |-> <<144 + l>> \o elems, len |-> l, elems |-> elems]
    /\ rv \in ArrayPriors
    /\ pre = rv
    /\ ret = "nil"
    /\ pc = 0

SpecArray == InitArray /\ [][Next]_vars

\* C11: decoding a sequence of wire length L into a fixed array of N slots
\* fails when L > N; when L <= N, L = 0 included, it succeeds, the first L
\* slots hold the elements in wire order and the slots L .. N-1 hold the zero
\* value of the element type, whatever they held before.
C11_ArrayTailZeroed ==
    Decoding =>
        IF arg.len > LenOf(pre) THEN ret # "nil"
        ELSE /\ ret = "nil"
             /\ \A i \in 1..arg.len : rv.v[i] = Int8(arg.elems[i])
             /\ \A i \in (arg.len + 1)..LenOf(pre) : rv.v[i] = Zero(int8Typ)

\* ------------------------------------------------------------------ SpecStream: successive values of one stream

\* the most calls made on one decoder, and the most elements of a sequence on the wire
MaxCalls == 2
MaxElems == 2

\* a value on the wire: its encoding, the concrete value an unset open slot
\* holds after it is decoded with the default resolver (Invalid: the slot
\* stays nil), and the number of length fields in the encoding
Wire(enc, val, hdrs) == [enc |-> enc, val |-> val, hdrs |-> hdrs, ok |-> TRUE]

\* a well-formed value on the wire that no Go map holds: its keys are not
\* distinct, or one of them is a sequence
WireNoMap(enc) == [enc |-> enc, val |-> Invalid, hdrs |-> 0, ok |-> FALSE]

\* the map {1: 1, 1: true} and the map {[]: 1}
WireNoMaps == {WireNoMap(<<130, 1, 1, 1, 195>>), WireNoMap(<<129, 144, 1>>)}

\* nil, true, a fixnum, an int16, and raw bytes with an inline and a 16-bit length
WireScalars ==
    { Wire(<<192>>, Invalid, 0), Wire(<<195>>, V(boolTyp, TRUE), 0), Wire(<<1>>, Int8(1), 0),
      Wire(<<209, 255, 254>>, V([k |-> "int16"], <<255, 254>>), 0),
      Wire(<<161, 97>>, String(<<97>>), 1), Wire(<<160>>, String(<<>>), 1),
      Wire(<<218, 0, 1, 98>>, String(<<98>>), 1) }

RECURSIVE EncAll(_)
\* the encodings of the values vs one after the other
EncAll(vs) == IF vs = <<>> THEN <<>> ELSE Head(vs).enc \o EncAll(Tail(vs))

RECURSIVE HdrsAll(_)
\* the number of length fields in the encodings of the values vs
HdrsAll(vs) == IF vs = <<>> THEN 0 ELSE Head(vs).hdrs + HdrsAll(Tail(vs))

\* the sequence of the values es in the encoding w of its length: a []interface{}
WireList(es, w) ==
    Wire(Header(ContainerList, Len(es), w) \o EncAll(es),
         V(intfSliceTyp, [arr |-> [i \in 1..Len(es) |-> V(intfTyp, es[i].val)],
                          len |-> Len(es), nl |-> FALSE]),
         1 + HdrsAll(es))

\* the map of the pairs ps, their keys distinct, in the encoding w of its
\* length: a map[interface{}]interface{}
WireMap(ps, w) ==
    Wire(Header(ContainerMap, Len(ps), w) \o EncAll([i \in 1..(2 * Len(ps)) |->
                IF i % 2 = 1 THEN ps[(i + 1) \div 2].key ELSE ps[i \div 2].val]),
         V(mapIntfIntfTyp, [m |-> {[key |-> ps[i].key.val, val |-> V(intfTyp, ps[i].val.val)] :
                                    i \in 1..Len(ps)},
                            nl |-> FALSE]),
         1 + HdrsAll([i \in 1..Len(ps) |-> ps[i].key]) + HdrsAll([i \in 1..Len(ps) |-> ps[i].val]))

\* containers as elements and values of containers, and as the later values
\* of a stream: an empty sequence, a sequence of a fixnum, a map of a fixnum to raw bytes
WireNested ==
    { WireList(<<>>, "inline"), WireList(<<Wire(<<1>>, Int8(1), 0)>>, "w16"),
      WireMap(<<[key |-> Wire(<<1>>, Int8(1), 0), val |-> Wire(<<161, 97>>, String(<<97>>), 1)]>>, "inline") }

\* the values a stream starts with: the scalars, the sequences of up to
\* MaxElems scalars and containers, the maps of up to one pair, and the maps
\* Go cannot hold
WireVals ==
    WireScalars \cup WireNoMaps
    \cup {WireList(es, w) : es \in SeqsUpTo(WireScalars \cup WireNested, MaxElems), w \in {"inline", "w16"}}
    \cup {WireMap(ps, w) : ps \in SeqsUpTo([key : WireScalars, val : WireScalars \cup WireNested], 1),
                           w \in {"inline", "w16"}}

\* the values that follow the first in a stream: the containers, nil, and
\* raw bytes with a 16-bit length
WireLater == WireNested \cup {Wire(<<192>>, Invalid, 0), Wire(<<218, 0, 1, 98>>, String(<<98>>), 1)}

InitStream ==
    /\ \E v \in WireVals : \E vs \in SeqsUpTo(WireLater, MaxCalls - 1) :
          /\ d = NewDecoder(Buffer(EncAll(<<v>> \o vs)), DefaultDecoderContainerResolver)
          /\ arg = [stream |-> EncAll(<<v>> \o vs), vals |-> <<v>> \o vs, out |-> <<>>]
    /\ rv = Zero(intfTyp)
    /\ pre = rv
    /\ ret = "nil"
    /\ pc = 0

\* Decoder.Decode(&v) with v a new unset interface{}: the next call on the
\* decoder, made while the stream has a value left and no call has failed
DecodeNext ==
    /\ pc < Len(arg.vals)
    /\ ret = "nil"
    /\ Returns(DecodeValue(d, AddrOf(Zero(intfTyp))))
    /\ arg' = [arg EXCEPT !.out = Append(@, rv')]
    /\ pre' = Zero(intfTyp)
    /\ pc' = pc + 1

NextStream == DecodeNext

SpecStream == InitStream /\ [][NextStream]_vars

\* the bytes the Read calls of the last call asked for
RECURSIVE Requested(_)
Requested(log) == IF log = <<>> THEN 0 ELSE log[1].want + Requested(Tail(log))

\* C12: a successful decode of a well-formed value into an unset open root
\* with the default resolver consumes exactly the bytes of that value: the
\* Read calls of the call ask for as many bytes as the value has, each gets
\* all it asked for at once, every length field is turned into a length
\* once, and the source is left at the first byte of the next value; the
\* successful calls made so far have returned the values of the stream in
\* order.  Every value a Go map can hold is decoded successfully.
C12_OneValuePerCall ==
    pc >= 1 =>
        /\ arg.vals[pc].ok => ret = "nil"
        /\ ret = "nil" =>
              /\ Consumed = Len(EncAll(SubSeq(arg.vals, 1, pc)))
              /\ Requested(d.reads) = Len(arg.vals[pc].enc)
              /\ \A i \in 1..Len(d.reads) : d.reads[i].first /\ d.reads[i].got = d.reads[i].want
              /\ Len(d.lens) = arg.vals[pc].hdrs
              /\ \A i \in 1..pc : Concrete(arg.out[i]) = arg.vals[i].val

\* two calls returned a sequence with a 16-bit length holding a string and a
\* map, then a map
C12_Witness ==
    /\ pc = 2
    /\ ret = "nil"
    /\ d.r.buf = <<>>
    /\ arg.stream = <<220, 0, 2, 161, 97, 129, 1, 161, 97, 129, 1, 161, 97>>
    /\ Kind(Concrete(arg.out[1])) = "slice"
    /\ Concrete(Index(Concrete(arg.out[1]), 0)) = String(<<97>>)
    /\ Concrete(arg.out[2]) = WireMap(<<[key |-> Wire(<<1>>, Int8(1), 0), val |-> Wire(<<161, 97>>, String(<<97>>), 1)]>>, "inline").val

====
